---- MODULE Spec2Model ----
(***************************************************************************)
(* Model of the Daphne test harness of janus                               *)
(* (monolithic_integration_test/src/daphne.rs): Daphne::new (configuration *)
(* translation, process-wide image cache, container launch, readiness      *)
(* wait, pump task spawn), the pump task that posts to /internal/process,  *)
(* and Drop for Daphne (the shutdown handshake).                           *)
(***************************************************************************)
EXTENDS Integers, Sequences, FiniteSets, TLC

(***************************************************************************)
(* Bounds of the model.                                                    *)
(***************************************************************************)
NumCallers == 2        \* concurrent callers of Daphne::new in one process
MaxRequests == 3       \* maintenance requests one pump may issue in a run
MaxBuckets == 2        \* bucket boundaries of a histogram selector
MaxBits == 3           \* bit widths 0..MaxBits of a sum selector

(***************************************************************************)
(* Program constants.                                                      *)
(***************************************************************************)
KeyLen == 16                    \* dap_bucket_key / dap_collect_id_key bytes
MaxBatchDuration == 360000
MinBatchIntervalStart == 259200
MaxBatchIntervalEnd == 259200
InternalPort == 8080

Instances == 1 .. NumCallers

(***************************************************************************)
(* hex::encode: two lower-case hex digits per byte.                        *)
(***************************************************************************)
HexDigits == <<"0", "1", "2", "3", "4", "5", "6", "7",
               "8", "9", "a", "b", "c", "d", "e", "f">>

RECURSIVE HexEncode(_)
HexEncode(bytes) ==
    IF bytes = <<>> THEN <<>>
    ELSE <<HexDigits[(Head(bytes) \div 16) + 1],
           HexDigits[(Head(bytes) % 16) + 1]>> \o HexEncode(Tail(bytes))

(***************************************************************************)
(* Input domains: janus_core::message HPKE identifiers, HPKE configs and   *)
(* keypairs, VDAF selectors, tasks.                                        *)
(***************************************************************************)
KemIds == {"X25519HkdfSha256", "P256HkdfSha256"}
KdfIds == {"HkdfSha256", "HkdfSha512"}
AeadIds == {"Aes128Gcm", "ChaCha20Poly1305"}

HpkeTriples ==
    { <<"X25519HkdfSha256", "HkdfSha256", "Aes128Gcm">>,
      <<"P256HkdfSha256", "HkdfSha256", "Aes128Gcm">>,
      <<"X25519HkdfSha256", "HkdfSha512", "Aes128Gcm">>,
      <<"X25519HkdfSha256", "HkdfSha256", "ChaCha20Poly1305">> }

HpkeConfig(id, triple, pk) ==
    [id |-> id, kem_id |-> triple[1], kdf_id |-> triple[2],
     aead_id |-> triple[3], public_key |-> pk]

KeyIds == {7, 9}
PublicKeyOf(id) == <<id, 171>>
PrivateKeyOf(id) == <<id, 205, 1>>

Keypairs ==
    { [config |-> HpkeConfig(id, tr, PublicKeyOf(id)),
       private_key |-> PrivateKeyOf(id)] : id \in KeyIds, tr \in HpkeTriples }

\* task.hpke_keys: a map from config id to keypair, here the set of its values;
\* task.hpke_values is the order in which this map yields them, once iterated
KeySets ==
    { ks \in SUBSET Keypairs :
        /\ ks # {}
        /\ \A a, b \in ks : a.config.id = b.config.id => a = b }

CollectorConfigs == { HpkeConfig(200, tr, <<200, 18>>) : tr \in HpkeTriples }

RECURSIVE SeqsUpTo(_, _)
SeqsUpTo(S, n) ==
    IF n = 0 THEN {<<>>}
    ELSE LET shorter == SeqsUpTo(S, n - 1)
         IN  shorter \cup { Append(s, x) : s \in shorter, x \in S }

BucketValues == {1, 5}

\* janus_server::task::VdafInstance, Real(janus_core::task::VdafInstance) or a
\* fake; buckets / bits are <<>> / 0 for the selectors that carry none
Vdaf(kind, buckets, bits) == [kind |-> kind, buckets |-> buckets, bits |-> bits]

VdafInstances ==
    {Vdaf("Prio3Aes128Count", <<>>, 0)}
    \cup { Vdaf("Prio3Aes128Histogram", b, 0) : b \in SeqsUpTo(BucketValues, MaxBuckets) }
    \cup { Vdaf("Prio3Aes128Sum", <<>>, n) : n \in 0 .. MaxBits }
    \cup { Vdaf("Prio3Aes128CountVec", <<>>, n) : n \in 1 .. 2 }
    \cup { Vdaf(k, <<>>, 0) : k \in {"Poplar1", "Fake", "FakeFailsPrepInit", "FakeFailsPrepStep"} }

TokenLists == { <<"tok-a">>, <<"tok-a", "tok-b">>, <<"tok-b", "tok-a">> }

Roles == {"leader", "helper"}

MkTask(role, keys, vdaf, collector, aggToks, colToks) ==
    [id |-> <<1, 254>>,
     role |-> role,
     leader_url |-> "http://leader:8080/",
     helper_url |-> "http://helper:8080/",
     min_batch_duration |-> 3600,
     min_batch_size |-> 10,
     vdaf |-> vdaf,
     vdaf_verify_key |-> <<15, 16>>,
     hpke_keys |-> keys,
     hpke_values |-> <<>>,
     collector_hpke_config |-> collector,
     aggregator_auth_tokens |-> aggToks,
     collector_auth_tokens |-> colToks]

AllTasks ==
    { MkTask(r, ks, v, c, at, ct) :
        r \in Roles, ks \in KeySets, v \in VdafInstances,
        c \in CollectorConfigs, at \in {<<"tok-a", "tok-b">>, <<"tok-b">>},
        ct \in {<<"col-x">>, <<"col-y", "col-x">>} }

NoTask == MkTask("none", {}, Vdaf("none", <<>>, 0),
                 HpkeConfig(0, <<"none", "none", "none">>, <<>>), <<>>, <<>>)

(***************************************************************************)
(* Configuration translation, Daphne::new lines 48-105.                    *)
(***************************************************************************)
SupportedKem == "X25519HkdfSha256"
SupportedKdf == "HkdfSha256"
SupportedAead == "Aes128Gcm"

\* fault variant of HpkeConfigSupported: the key-exchange id is not asserted
HpkeConfigSupported_KemUnchecked(hpke_config) ==
    /\ hpke_config.kdf_id = SupportedKdf
    /\ hpke_config.aead_id = SupportedAead

\* the three assert_eq! of DaphneHpkeConfig::from
HpkeConfigSupported(hpke_config) ==
    /\ hpke_config.kem_id = SupportedKem
    /\ hpke_config.kdf_id = SupportedKdf
    /\ hpke_config.aead_id = SupportedAead

\* the value DaphneHpkeConfig::from builds once the assertions passed
DaphneHpkeConfigFrom(hpke_config) ==
    [id |-> hpke_config.id,
     kem_id |-> hpke_config.kem_id,
     kdf_id |-> hpke_config.kdf_id,
     aead_id |-> hpke_config.aead_id,
     public_key |-> HexEncode(hpke_config.public_key)]

\* the selectors the arms of daphne_vdaf_config_from_janus_vdaf name
VdafSupported(vdaf) ==
    vdaf.kind \in {"Prio3Aes128Count", "Prio3Aes128Histogram", "Prio3Aes128Sum"}

\* fault variant of the VDAF mapping: the last arm defaults to Count
daphne_vdaf_config_fallthrough(vdaf) ==
    CASE vdaf.kind = "Prio3Aes128Histogram" ->
            [panic |-> FALSE, prio3 |-> "Histogram", buckets |-> vdaf.buckets, bits |-> 0]
      [] vdaf.kind = "Prio3Aes128Sum" ->
            [panic |-> FALSE, prio3 |-> "Sum", buckets |-> <<>>, bits |-> vdaf.bits]
      [] OTHER ->
            [panic |-> FALSE, prio3 |-> "Count", buckets |-> <<>>, bits |-> 0]

\* fault variant of the VDAF mapping: the bit width of Sum is not carried over
daphne_vdaf_config_bits_lost(vdaf) ==
    CASE vdaf.kind = "Prio3Aes128Count" ->
            [panic |-> FALSE, prio3 |-> "Count", buckets |-> <<>>, bits |-> 0]
      [] vdaf.kind = "Prio3Aes128Histogram" ->
            [panic |-> FALSE, prio3 |-> "Histogram", buckets |-> vdaf.buckets, bits |-> 0]
      [] vdaf.kind = "Prio3Aes128Sum" ->
            [panic |-> FALSE, prio3 |-> "Sum", buckets |-> <<>>, bits |-> 0]
      [] OTHER ->
            [panic |-> TRUE, prio3 |-> "none", buckets |-> <<>>, bits |-> 0]

\* daphne_vdaf_config_from_janus_vdaf; the last arm panics
daphne_vdaf_config_from_janus_vdaf(vdaf) ==
    CASE vdaf.kind = "Prio3Aes128Count" ->
            [panic |-> FALSE, prio3 |-> "Count", buckets |-> <<>>, bits |-> 0]
      [] vdaf.kind = "Prio3Aes128Histogram" ->
            [panic |-> FALSE, prio3 |-> "Histogram", buckets |-> vdaf.buckets, bits |-> 0]
      [] vdaf.kind = "Prio3Aes128Sum" ->
            [panic |-> FALSE, prio3 |-> "Sum", buckets |-> <<>>, bits |-> vdaf.bits]
      [] OTHER ->
            [panic |-> TRUE, prio3 |-> "none", buckets |-> <<>>, bits |-> 0]

\* the orders in which task.hpke_keys.values() may yield the keypairs
Orderings(ks) ==
    { s \in [1 .. Cardinality(ks) -> ks] : \A k \in ks : \E n \in DOMAIN s : s[n] = k }

\* Task::primary_aggregator_auth_token / primary_collector_auth_token
primary_aggregator_auth_token(task) == Head(task.aggregator_auth_tokens)
primary_collector_auth_token(task) == Head(task.collector_auth_tokens)

\* fault variant of TranslateError: the collector HPKE config is copied
\* without the assertions
TranslateError_CollectorUnchecked(task) ==
    IF \E kp \in task.hpke_keys : ~HpkeConfigSupported(kp.config)
        THEN "UnsupportedHpkeAlgorithm"
    ELSE IF daphne_vdaf_config_from_janus_vdaf(task.vdaf).panic
        THEN "UnsupportedVdaf"
    ELSE "none"

\* the first panic the translation of a task runs into, in evaluation order:
\* receiver list (56-66), then the vdaf field (87), then the collector HPKE
\* config field (89) of the task list entry
TranslateError(task) ==
    IF \E kp \in task.hpke_keys : ~HpkeConfigSupported(kp.config)
        THEN "UnsupportedHpkeAlgorithm"
    ELSE IF daphne_vdaf_config_from_janus_vdaf(task.vdaf).panic
        THEN "UnsupportedVdaf"
    ELSE IF ~HpkeConfigSupported(task.collector_hpke_config)
        THEN "UnsupportedHpkeAlgorithm"
    ELSE "none"

JsonObject(key, value) == [kind |-> "json_object", key |-> key, value |-> value]
EmptyString == [kind |-> "empty_string", key |-> <<>>, value |-> ""]

\* fault variant of ReceiverConfigList: only the first keypair is serialized
ReceiverConfigList_FirstOnly(order) ==
    [n \in {1} |->
        [config |-> DaphneHpkeConfigFrom(order[n].config),
         secret_key |-> HexEncode(order[n].private_key)]]

\* lines 56-66: one DaphneHpkeReceiverConfig per value of task.hpke_keys
ReceiverConfigList(order) ==
    [n \in DOMAIN order |->
        [config |-> DaphneHpkeConfigFrom(order[n].config),
         secret_key |-> HexEncode(order[n].private_key)]]

\* fault variant of AggregatorBearerTokenList: forwarded for the leader only
AggregatorBearerTokenList_LeaderOnly(task) ==
    IF task.role = "leader"
        THEN JsonObject(HexEncode(task.id), primary_aggregator_auth_token(task))
        ELSE EmptyString

\* lines 96-98
AggregatorBearerTokenList(task) ==
    JsonObject(HexEncode(task.id), primary_aggregator_auth_token(task))

\* fault variant of CollectorBearerTokenList: forwarded whatever the role
CollectorBearerTokenList_AnyRole(task) ==
    JsonObject(HexEncode(task.id), primary_collector_auth_token(task))

\* lines 99-105
CollectorBearerTokenList(task) ==
    IF task.role = "leader"
        THEN JsonObject(HexEncode(task.id), primary_collector_auth_token(task))
        ELSE EmptyString

\* fault variant of TranslatedConfig: the verify key is taken from the random
\* bytes instead of the task
TranslatedConfig_RandomVerifyKey(task, order, bucket_key, collect_id_key) ==
    [role |-> task.role,
     dap_global_config |->
        [max_batch_duration |-> MaxBatchDuration,
         min_batch_interval_start |-> MinBatchIntervalStart,
         max_batch_interval_end |-> MaxBatchIntervalEnd],
     dap_hpke_receiver_config_list |-> ReceiverConfigList(order),
     dap_bucket_key |-> bucket_key,
     dap_collect_id_key |-> collect_id_key,
     dap_task_list |->
        [key |-> HexEncode(task.id),
         version |-> "v01",
         leader_url |-> task.leader_url,
         helper_url |-> task.helper_url,
         min_batch_duration |-> task.min_batch_duration,
         min_batch_size |-> task.min_batch_size,
         vdaf |-> daphne_vdaf_config_from_janus_vdaf(task.vdaf),
         vdaf_verify_key |-> HexEncode(collect_id_key),
         collector_hpke_config |-> DaphneHpkeConfigFrom(task.collector_hpke_config)],
     aggregator_bearer_token_list |-> AggregatorBearerTokenList(task),
     collector_bearer_token_list |-> CollectorBearerTokenList(task)]

\* the values computed by lines 48-105 for a task that passes the checks;
\* order is the iteration order of hpke_keys, the two keys are the random bytes
TranslatedConfig(task, order, bucket_key, collect_id_key) ==
    [role |-> task.role,
     dap_global_config |->
        [max_batch_duration |-> MaxBatchDuration,
         min_batch_interval_start |-> MinBatchIntervalStart,
         max_batch_interval_end |-> MaxBatchIntervalEnd],
     dap_hpke_receiver_config_list |-> ReceiverConfigList(order),
     dap_bucket_key |-> bucket_key,
     dap_collect_id_key |-> collect_id_key,
     dap_task_list |->
        [key |-> HexEncode(task.id),
         version |-> "v01",
         leader_url |-> task.leader_url,
         helper_url |-> task.helper_url,
         min_batch_duration |-> task.min_batch_duration,
         min_batch_size |-> task.min_batch_size,
         vdaf |-> daphne_vdaf_config_from_janus_vdaf(task.vdaf),
         vdaf_verify_key |-> HexEncode(task.vdaf_verify_key),
         collector_hpke_config |-> DaphneHpkeConfigFrom(task.collector_hpke_config)],
     aggregator_bearer_token_list |-> AggregatorBearerTokenList(task),
     collector_bearer_token_list |-> CollectorBearerTokenList(task)]

NoConfig == [role |-> "none"]

\* thread_rng().fill of a 16-byte array: the values the model draws from
RandomKeys == { [n \in 1 .. KeyLen |-> b] : b \in {0, 171} }

(***************************************************************************)
(* Bundled image metadata (test_daphne.metadata), fixed at build time.     *)
(***************************************************************************)
JStr(text) == [type |-> "string", str |-> text]
JNull == [type |-> "null", str |-> ""]
JNumber == [type |-> "number", str |-> ""]

Metadata(parses, strategy, name, tag) ==
    [parses |-> parses, strategy |-> strategy, image_name |-> name, image_tag |-> tag]

Metadatas ==
    { Metadata(TRUE, JStr("build"), JNull, JNull),
      Metadata(TRUE, JStr("prebuilt"), JStr("daphne"), JStr("v1")),
      Metadata(TRUE, JStr("prebuilt"), JNull, JStr("v1")),
      Metadata(TRUE, JStr("prebuilt"), JStr("daphne"), JNull),
      Metadata(TRUE, JStr("skip"), JNull, JNull),
      Metadata(TRUE, JStr("docker"), JNull, JNull),
      Metadata(TRUE, JNumber, JNull, JNull),
      Metadata(FALSE, JNull, JNull, JNull) }

NoImage == <<"", "">>
LoadedImageTag == "3f9a"      \* hash reported by load_zstd_compressed_docker_image

(***************************************************************************)
(* State.                                                                  *)
(***************************************************************************)
VARIABLES
    metadata,        \* TEST_DAPHNE_METADATA_BYTES, as parsed JSON
    cache,           \* TEST_DAPHNE_IMAGE_NAME_AND_TAG: NoImage is None
    lockHolder,      \* caller holding the cache mutex, 0 when free
    lockPoisoned,    \* a caller panicked while holding the mutex
    parsedBy,        \* callers that parsed the metadata
    loadedBy,        \* callers that loaded the image archive
    pc,              \* position of each caller in Daphne::new / Drop
    task,            \* the Task each caller passed to Daphne::new
    config,          \* the values translated from the task
    err,             \* the panic that ended the caller, "none" otherwise
    image,           \* (image_name, image_tag) the caller got from the cache
    did,             \* side effects the caller performed so far
    container,       \* daphne_container: "none", "running", "removed"
    args,            \* startup arguments the container was run with
    pumpPc,          \* the pump task: "none", "select", "request", "stopped",
                     \* "aborted" (its future was dropped by the runtime)
    tickReady,       \* interval.tick() would complete now
    cancel,          \* start_shutdown oneshot channel: "open", "sent"
    complete,        \* messages queued in the shutdown_complete channel
    reqHung,         \* the request in flight never resolves
    lastResult,      \* result of the last resolved request
    issued,          \* maintenance requests started by the pump
    afterCancel,     \* of these, started after the cancellation was sent
    envRead,         \* JanusPair::new: results of the four env::var calls
    pairPc,          \* JanusPair::new: position of the constructor
    pairErr,         \* JanusPair::new: the panic that ended it, or "none"
    network,         \* JanusPair::new: the generated network name, "" if none
    created          \* JanusPair::new: aggregator instances created, in order

cacheVars == <<metadata, cache, lockHolder, lockPoisoned, parsedBy, loadedBy>>
callerVars == <<pc, task, config, err, image, did, container, args>>
pumpVars == <<pumpPc, tickReady, cancel, complete, reqHung, lastResult, issued, afterCancel>>
pairVars == <<envRead, pairPc, pairErr, network, created>>
vars == <<cacheVars, callerVars, pumpVars, pairVars>>

Init ==
    /\ metadata \in Metadatas
    /\ cache = NoImage
    /\ lockHolder = 0
    /\ lockPoisoned = FALSE
    /\ parsedBy = {}
    /\ loadedBy = {}
    /\ pc = [i \in Instances |-> "idle"]
    /\ task = [i \in Instances |-> NoTask]
    /\ config = [i \in Instances |-> NoConfig]
    /\ err = [i \in Instances |-> "none"]
    /\ image = [i \in Instances |-> NoImage]
    /\ did = [i \in Instances |-> {}]
    /\ container = [i \in Instances |-> "none"]
    /\ args = [i \in Instances |-> <<>>]
    /\ pumpPc = [i \in Instances |-> "none"]
    /\ tickReady = [i \in Instances |-> FALSE]
    /\ cancel = [i \in Instances |-> "open"]
    /\ complete = [i \in Instances |-> 0]
    /\ reqHung = [i \in Instances |-> FALSE]
    /\ lastResult = [i \in Instances |-> "none"]
    /\ issued = [i \in Instances |-> 0]
    /\ afterCancel = [i \in Instances |-> 0]
    /\ envRead = <<>>
    /\ pairPc = "start"
    /\ pairErr = "none"
    /\ network = ""
    /\ created = <<>>

\* a panic inside Daphne::new: the caller ends with the error
Panic(i, error) ==
    /\ pc' = [pc EXCEPT ![i] = "panicked"]
    /\ err' = [err EXCEPT ![i] = error]

(***************************************************************************)
(* Daphne::new, lines 48-105: translate the task.                          *)
(***************************************************************************)
Translate(i, t, order, bucket_key, collect_id_key) ==
    /\ pc[i] = "idle"
    /\ task' = [task EXCEPT ![i] = [t EXCEPT !.hpke_values = order]]
    /\ did' = [did EXCEPT ![i] = @ \cup {"translate"}]
    /\ IF TranslateError(t) # "none"
          THEN /\ Panic(i, TranslateError(t))
               /\ UNCHANGED config
          ELSE /\ pc' = [pc EXCEPT ![i] = "translated"]
               /\ config' = [config EXCEPT ![i] =
                                TranslatedConfig(t, order, bucket_key, collect_id_key)]
               /\ UNCHANGED err
    /\ UNCHANGED <<pairVars, cacheVars, image, container, args, pumpVars>>

(***************************************************************************)
(* Daphne::new, lines 110-156: the image cache.                            *)
(***************************************************************************)
\* fault variant of LockCache: a poisoned mutex is locked all the same
LockCache_IgnoresPoison(i) ==
    /\ pc[i] = "translated"
    /\ did' = [did EXCEPT ![i] = @ \cup {"lock"}]
    /\ lockHolder = 0
    /\ lockHolder' = i
    /\ pc' = [pc EXCEPT ![i] = "locked"]
    /\ UNCHANGED <<pairVars, metadata, cache, lockPoisoned, parsedBy, loadedBy,
                   task, config, err, image, container, args, pumpVars>>

\* fault variant of LockCache: the slot is entered without mutual exclusion
LockCache_NoMutex(i) ==
    /\ pc[i] = "translated"
    /\ did' = [did EXCEPT ![i] = @ \cup {"lock"}]
    /\ IF lockPoisoned
          THEN /\ Panic(i, "ImageResolutionFailure")
               /\ UNCHANGED lockHolder
          ELSE /\ lockHolder' = i
               /\ pc' = [pc EXCEPT ![i] = "locked"]
               /\ UNCHANGED err
    /\ UNCHANGED <<pairVars, metadata, cache, lockPoisoned, parsedBy, loadedBy,
                   task, config, image, container, args, pumpVars>>

\* TEST_DAPHNE_IMAGE_NAME_AND_TAG.lock().unwrap()
LockCache(i) ==
    /\ pc[i] = "translated"
    /\ did' = [did EXCEPT ![i] = @ \cup {"lock"}]
    /\ IF lockPoisoned
          THEN /\ lockHolder = 0
               /\ Panic(i, "ImageResolutionFailure")
               /\ UNCHANGED lockHolder
          ELSE /\ lockHolder = 0
               /\ lockHolder' = i
               /\ pc' = [pc EXCEPT ![i] = "locked"]
               /\ UNCHANGED err
    /\ UNCHANGED <<pairVars, metadata, cache, lockPoisoned, parsedBy, loadedBy,
                   task, config, image, container, args, pumpVars>>

\* if image_name_and_tag.is_none()
CheckCache(i) ==
    /\ pc[i] = "locked"
    /\ pc' = [pc EXCEPT ![i] = IF cache = NoImage THEN "init" ELSE "cached"]
    /\ UNCHANGED <<pairVars, cacheVars, task, config, err, image, did, container, args, pumpVars>>

\* fault variant of ResolveImage: "skip" and unknown strategies fall back to
\* a default image instead of panicking
ResolveImage_DefaultImage(md, loadOk) ==
    IF ~md.parses \/ md.strategy.type # "string" THEN NoImage
    ELSE CASE md.strategy.str = "build" ->
                 IF loadOk THEN <<"sha256", LoadedImageTag>> ELSE NoImage
           [] md.strategy.str = "prebuilt" ->
                 IF md.image_name.type = "string" /\ md.image_tag.type = "string"
                    THEN <<md.image_name.str, md.image_tag.str>>
                    ELSE NoImage
           [] OTHER -> <<"daphne", "latest">>

\* what the match on the strategy yields: the pair to store, or a panic
ResolveImage(md, loadOk) ==
    IF ~md.parses \/ md.strategy.type # "string" THEN NoImage
    ELSE CASE md.strategy.str = "build" ->
                 IF loadOk THEN <<"sha256", LoadedImageTag>> ELSE NoImage
           [] md.strategy.str = "prebuilt" ->
                 IF md.image_name.type = "string" /\ md.image_tag.type = "string"
                    THEN <<md.image_name.str, md.image_tag.str>>
                    ELSE NoImage
           [] OTHER -> NoImage

\* the archive is loaded only on the "build" arm
LoadsImage(md) == md.parses /\ md.strategy.type = "string" /\ md.strategy.str = "build"

\* lines 113-153: parse the metadata, resolve the image, fill the slot; a
\* panic unwinds through the guard, which poisons and releases the mutex
InitCache(i, loadOk) ==
    /\ pc[i] = "init"
    /\ parsedBy' = parsedBy \cup {i}
    /\ loadedBy' = IF LoadsImage(metadata) THEN loadedBy \cup {i} ELSE loadedBy
    /\ did' = [did EXCEPT ![i] =
                 @ \cup {"parse"} \cup (IF LoadsImage(metadata) THEN {"load"} ELSE {})]
    /\ IF ResolveImage(metadata, loadOk) = NoImage
          THEN /\ Panic(i, "ImageResolutionFailure")
               /\ lockPoisoned' = TRUE
               /\ lockHolder' = 0
               /\ UNCHANGED cache
          ELSE /\ cache' = ResolveImage(metadata, loadOk)
               /\ pc' = [pc EXCEPT ![i] = "cached"]
               /\ UNCHANGED <<err, lockPoisoned, lockHolder>>
    /\ UNCHANGED <<pairVars, metadata, task, config, image, container, args, pumpVars>>

\* line 155 and the end of the block: clone the pair, release the mutex
ReadCache(i) ==
    /\ pc[i] = "cached"
    /\ image' = [image EXCEPT ![i] = cache]
    /\ lockHolder' = 0
    /\ pc' = [pc EXCEPT ![i] = "resolved"]
    /\ UNCHANGED <<pairVars, metadata, cache, lockPoisoned, parsedBy, loadedBy,
                   task, config, err, did, container, args, pumpVars>>

(***************************************************************************)
(* Daphne::new, lines 159-222: port, startup arguments, container,         *)
(* readiness wait.                                                         *)
(***************************************************************************)
\* pick_unused_port().expect(..)
PickPort(i, found) ==
    /\ pc[i] = "resolved"
    /\ IF found
          THEN /\ pc' = [pc EXCEPT ![i] = "port_picked"]
               /\ did' = [did EXCEPT ![i] = @ \cup {"port"}]
               /\ UNCHANGED err
          ELSE /\ Panic(i, "NoUnusedPort")
               /\ UNCHANGED did
    /\ UNCHANGED <<pairVars, cacheVars, task, config, image, container, args, pumpVars>>

Binding(env_var, env_val) == <<env_var, env_val>>

\* fault variant of ContainerArgs: an empty collector token list is left out
ContainerArgs_EmptyOmitted(cfg) ==
    << Binding("port", InternalPort),
       Binding("DAP_DEPLOYMENT", "prod"),
       Binding("DAP_ISSUE73_DISABLE_AGG_JOB_QUEUE_GARBAGE_COLLECTION", "true"),
       Binding("DAP_AGGREGATOR_ROLE", cfg.role),
       Binding("DAP_GLOBAL_CONFIG", cfg.dap_global_config),
       Binding("DAP_HPKE_RECEIVER_CONFIG_LIST", cfg.dap_hpke_receiver_config_list),
       Binding("DAP_BUCKET_KEY", HexEncode(cfg.dap_bucket_key)),
       Binding("DAP_BUCKET_COUNT", "2"),
       Binding("DAP_COLLECT_ID_KEY", HexEncode(cfg.dap_collect_id_key)),
       Binding("DAP_TASK_LIST", cfg.dap_task_list),
       Binding("DAP_LEADER_BEARER_TOKEN_LIST", cfg.aggregator_bearer_token_list) >>
    \o (IF cfg.collector_bearer_token_list.kind = "empty_string"
           THEN <<>>
           ELSE <<Binding("DAP_COLLECTOR_BEARER_TOKEN_LIST", cfg.collector_bearer_token_list)>>)

\* lines 162-210: "--port=8080" followed by the --binding arguments, in order
ContainerArgs(cfg) ==
    << Binding("port", InternalPort),
       Binding("DAP_DEPLOYMENT", "prod"),
       Binding("DAP_ISSUE73_DISABLE_AGG_JOB_QUEUE_GARBAGE_COLLECTION", "true"),
       Binding("DAP_AGGREGATOR_ROLE", cfg.role),
       Binding("DAP_GLOBAL_CONFIG", cfg.dap_global_config),
       Binding("DAP_HPKE_RECEIVER_CONFIG_LIST", cfg.dap_hpke_receiver_config_list),
       Binding("DAP_BUCKET_KEY", HexEncode(cfg.dap_bucket_key)),
       Binding("DAP_BUCKET_COUNT", "2"),
       Binding("DAP_COLLECT_ID_KEY", HexEncode(cfg.dap_collect_id_key)),
       Binding("DAP_TASK_LIST", cfg.dap_task_list),
       Binding("DAP_LEADER_BEARER_TOKEN_LIST", cfg.aggregator_bearer_token_list),
       Binding("DAP_COLLECTOR_BEARER_TOKEN_LIST", cfg.collector_bearer_token_list) >>

\* fault variant of RunContainer: the container is started as soon as the
\* task is translated, without the image of the cache
RunContainer_Unresolved(i) ==
    /\ pc[i] \in {"translated", "port_picked"}
    /\ args' = [args EXCEPT ![i] = ContainerArgs(config[i])]
    /\ container' = [container EXCEPT ![i] = "running"]
    /\ did' = [did EXCEPT ![i] = @ \cup {"container"}]
    /\ pc' = [pc EXCEPT ![i] = "container_started"]
    /\ UNCHANGED <<pairVars, cacheVars, task, config, err, image, pumpVars>>

\* container_client.run(runnable_image)
RunContainer(i) ==
    /\ pc[i] = "port_picked"
    /\ args' = [args EXCEPT ![i] = ContainerArgs(config[i])]
    /\ container' = [container EXCEPT ![i] = "running"]
    /\ did' = [did EXCEPT ![i] = @ \cup {"container"}]
    /\ pc' = [pc EXCEPT ![i] = "container_started"]
    /\ UNCHANGED <<pairVars, cacheVars, task, config, err, image, pumpVars>>

\* await_http_server(port).await: the instance answered within the bound, or
\* the wait gave up; the panic unwinds and drops daphne_container
AwaitHttpServer(i, reachable) ==
    /\ pc[i] = "container_started"
    /\ IF reachable
          THEN /\ pc' = [pc EXCEPT ![i] = "ready"]
               /\ did' = [did EXCEPT ![i] = @ \cup {"ready"}]
               /\ UNCHANGED <<err, container>>
          ELSE /\ Panic(i, "StartupTimeout")
               /\ container' = [container EXCEPT ![i] = "removed"]
               /\ UNCHANGED did
    /\ UNCHANGED <<pairVars, cacheVars, task, config, image, args, pumpVars>>

(***************************************************************************)
(* Daphne::new, lines 228-268: create the two channels, spawn the pump     *)
(* task, return the handle.  The first tick of the interval completes      *)
(* immediately.                                                            *)
(***************************************************************************)
\* fault variant of SpawnPump: the pump is spawned without the readiness wait
SpawnPump_NoWait(i) ==
    /\ pc[i] \in {"container_started", "ready"}
    /\ pc' = [pc EXCEPT ![i] = "alive"]
    /\ did' = [did EXCEPT ![i] = @ \cup {"spawn"}]
    /\ pumpPc' = [pumpPc EXCEPT ![i] = "select"]
    /\ tickReady' = [tickReady EXCEPT ![i] = TRUE]
    /\ cancel' = [cancel EXCEPT ![i] = "open"]
    /\ complete' = [complete EXCEPT ![i] = 0]
    /\ UNCHANGED <<pairVars, cacheVars, task, config, err, image, container, args,
                   reqHung, lastResult, issued, afterCancel>>

\* lines 228-268
SpawnPump(i) ==
    /\ pc[i] = "ready"
    /\ pc' = [pc EXCEPT ![i] = "alive"]
    /\ did' = [did EXCEPT ![i] = @ \cup {"spawn"}]
    /\ pumpPc' = [pumpPc EXCEPT ![i] = "select"]
    /\ tickReady' = [tickReady EXCEPT ![i] = TRUE]
    /\ cancel' = [cancel EXCEPT ![i] = "open"]
    /\ complete' = [complete EXCEPT ![i] = 0]
    /\ UNCHANGED <<pairVars, cacheVars, task, config, err, image, container, args,
                   reqHung, lastResult, issued, afterCancel>>

(***************************************************************************)
(* The pump task, lines 241-261.                                           *)
(***************************************************************************)
\* the 250ms period elapses: the next interval.tick() is ready
TimerFire(i) ==
    /\ pumpPc[i] \in {"select", "request"}
    /\ ~tickReady[i]
    /\ tickReady' = [tickReady EXCEPT ![i] = TRUE]
    /\ UNCHANGED <<pairVars, cacheVars, callerVars, pumpPc, cancel, complete, reqHung,
                   lastResult, issued, afterCancel>>

\* fault variant of PumpTick: the request is not awaited inside the loop, so
\* the next tick is taken while the previous request is unresolved
PumpTick_Overlapping(i, hangs) ==
    /\ pumpPc[i] \in {"select", "request"}
    /\ tickReady[i]
    /\ issued[i] < MaxRequests
    /\ tickReady' = [tickReady EXCEPT ![i] = FALSE]
    /\ pumpPc' = [pumpPc EXCEPT ![i] = "request"]
    /\ reqHung' = [reqHung EXCEPT ![i] = hangs]
    /\ issued' = [issued EXCEPT ![i] = @ + 1]
    /\ afterCancel' = [afterCancel EXCEPT ![i] = IF cancel[i] = "sent" THEN @ + 1 ELSE @]
    /\ UNCHANGED <<pairVars, cacheVars, callerVars, cancel, complete, lastResult>>

\* fault variant of PumpTick: a biased select! that prefers the cancellation
PumpTick_CancelFirst(i, hangs) ==
    /\ pumpPc[i] = "select"
    /\ tickReady[i]
    /\ cancel[i] # "sent"
    /\ issued[i] < MaxRequests
    /\ tickReady' = [tickReady EXCEPT ![i] = FALSE]
    /\ pumpPc' = [pumpPc EXCEPT ![i] = "request"]
    /\ reqHung' = [reqHung EXCEPT ![i] = hangs]
    /\ issued' = [issued EXCEPT ![i] = @ + 1]
    /\ afterCancel' = [afterCancel EXCEPT ![i] = IF cancel[i] = "sent" THEN @ + 1 ELSE @]
    /\ UNCHANGED <<pairVars, cacheVars, callerVars, cancel, complete, lastResult>>

\* select! takes the tick branch, then the request is sent and awaited
PumpTick(i, hangs) ==
    /\ pumpPc[i] = "select"
    /\ tickReady[i]
    /\ issued[i] < MaxRequests
    /\ tickReady' = [tickReady EXCEPT ![i] = FALSE]
    /\ pumpPc' = [pumpPc EXCEPT ![i] = "request"]
    /\ reqHung' = [reqHung EXCEPT ![i] = hangs]
    /\ issued' = [issued EXCEPT ![i] = @ + 1]
    /\ afterCancel' = [afterCancel EXCEPT ![i] = IF cancel[i] = "sent" THEN @ + 1 ELSE @]
    /\ UNCHANGED <<pairVars, cacheVars, callerVars, cancel, complete, lastResult>>

\* fault variant of PumpShutdown: the pump returns without reporting
PumpShutdown_NoReport(i) ==
    /\ pumpPc[i] = "select"
    /\ cancel[i] = "sent"
    /\ pumpPc' = [pumpPc EXCEPT ![i] = "stopped"]
    /\ UNCHANGED <<pairVars, cacheVars, callerVars, tickReady, cancel, complete, reqHung,
                   lastResult, issued, afterCancel>>

\* fault variant of PumpShutdown: the pump stops without a cancellation
PumpShutdown_Unprompted(i) ==
    /\ pumpPc[i] = "select"
    /\ complete' = [complete EXCEPT ![i] = @ + 1]
    /\ pumpPc' = [pumpPc EXCEPT ![i] = "stopped"]
    /\ UNCHANGED <<pairVars, cacheVars, callerVars, tickReady, cancel, reqHung,
                   lastResult, issued, afterCancel>>

\* select! takes the start_shutdown_receiver branch: report and return
PumpShutdown(i) ==
    /\ pumpPc[i] = "select"
    /\ cancel[i] = "sent"
    /\ complete' = [complete EXCEPT ![i] = @ + 1]
    /\ pumpPc' = [pumpPc EXCEPT ![i] = "stopped"]
    /\ UNCHANGED <<pairVars, cacheVars, callerVars, tickReady, cancel, reqHung,
                   lastResult, issued, afterCancel>>

\* fault variant of RequestResolves: an error ends the pump task
RequestResolves_FailStops(i, result) ==
    /\ pumpPc[i] = "request"
    /\ ~reqHung[i]
    /\ lastResult' = [lastResult EXCEPT ![i] = result]
    /\ pumpPc' = [pumpPc EXCEPT ![i] = IF result = "err" THEN "stopped" ELSE "select"]
    /\ UNCHANGED <<pairVars, cacheVars, callerVars, tickReady, cancel, complete, reqHung,
                   issued, afterCancel>>

\* the awaited send() resolves; `let _ =` drops the result either way
RequestResolves(i, result) ==
    /\ pumpPc[i] = "request"
    /\ ~reqHung[i]
    /\ lastResult' = [lastResult EXCEPT ![i] = result]
    /\ pumpPc' = [pumpPc EXCEPT ![i] = "select"]
    /\ UNCHANGED <<pairVars, cacheVars, callerVars, tickReady, cancel, complete, reqHung,
                   issued, afterCancel>>

RequestOk(i) == RequestResolves(i, "ok")
RequestFails(i) == RequestResolves(i, "err")

\* the runtime drops the spawned future at one of its await points (as it
\* does when it shuts down): the cancellation receiver and the completion
\* sender are dropped with it, without the handshake
PumpAbort(i) ==
    /\ pumpPc[i] \in {"select", "request"}
    /\ pumpPc' = [pumpPc EXCEPT ![i] = "aborted"]
    /\ UNCHANGED <<pairVars, cacheVars, callerVars, tickReady, cancel, complete, reqHung,
                   lastResult, issued, afterCancel>>

(***************************************************************************)
(* Drop for Daphne, lines 277-284, then the drop of the container field.   *)
(***************************************************************************)
\* start_shutdown_sender.send(()).unwrap(): send fails when the receiver is
\* gone; the unwrap panics and the unwinding drops the container field
DropSend(i) ==
    /\ pc[i] = "alive"
    /\ IF pumpPc[i] \in {"select", "request"}
          THEN /\ cancel' = [cancel EXCEPT ![i] = "sent"]
               /\ pc' = [pc EXCEPT ![i] = "drop_sent"]
               /\ UNCHANGED <<err, container>>
          ELSE /\ Panic(i, "ShutdownHandshakeFailure")
               /\ container' = [container EXCEPT ![i] = "removed"]
               /\ UNCHANGED cancel
    /\ UNCHANGED <<pairVars, cacheVars, task, config, image, did, args,
                   pumpPc, tickReady, complete, reqHung, lastResult, issued, afterCancel>>

\* fault variant of DropRecv: teardown returns without waiting for the report
DropRecv_NoWait(i) ==
    /\ pc[i] = "drop_sent"
    /\ complete' = [complete EXCEPT ![i] = IF @ > 0 THEN @ - 1 ELSE @]
    /\ pc' = [pc EXCEPT ![i] = "drop_returned"]
    /\ UNCHANGED <<pairVars, cacheVars, task, config, err, image, did, container, args,
                   pumpPc, tickReady, cancel, reqHung, lastResult, issued, afterCancel>>

\* fault variant of DropRecv: a closed channel is not noticed, recv() waits on
DropRecv_BlocksOnClosed(i) ==
    /\ pc[i] = "drop_sent"
    /\ complete[i] > 0
    /\ complete' = [complete EXCEPT ![i] = @ - 1]
    /\ pc' = [pc EXCEPT ![i] = "drop_returned"]
    /\ UNCHANGED <<pairVars, cacheVars, task, config, err, image, did, container, args,
                   pumpPc, tickReady, cancel, reqHung, lastResult, issued, afterCancel>>

\* shutdown_complete_receiver.recv().unwrap(): blocks until the report is
\* queued; with no report queued and the sender dropped recv() returns Err,
\* the unwrap panics and the unwinding drops the container field
DropRecv(i) ==
    /\ pc[i] = "drop_sent"
    /\ IF complete[i] > 0
          THEN /\ complete' = [complete EXCEPT ![i] = @ - 1]
               /\ pc' = [pc EXCEPT ![i] = "drop_returned"]
               /\ UNCHANGED <<err, container>>
          ELSE /\ pumpPc[i] \in {"stopped", "aborted"}
               /\ Panic(i, "ShutdownHandshakeFailure")
               /\ container' = [container EXCEPT ![i] = "removed"]
               /\ UNCHANGED complete
    /\ UNCHANGED <<pairVars, cacheVars, task, config, image, did, args,
                   pumpPc, tickReady, cancel, reqHung, lastResult, issued, afterCancel>>

\* after drop() returned the fields are dropped: the container is removed
RemoveContainer(i) ==
    /\ pc[i] = "drop_returned"
    /\ container' = [container EXCEPT ![i] = "removed"]
    /\ pc' = [pc EXCEPT ![i] = "removed"]
    /\ UNCHANGED <<pairVars, cacheVars, task, config, err, image, did, args, pumpVars>>

(***************************************************************************)
(* Specifications.                                                         *)
(***************************************************************************)
SupportedTriple == <<"X25519HkdfSha256", "HkdfSha256", "Aes128Gcm">>
GoodKeypair(id) ==
    [config |-> HpkeConfig(id, SupportedTriple, PublicKeyOf(id)),
     private_key |-> PrivateKeyOf(id)]
BadKemTriple == <<"P256HkdfSha256", "HkdfSha256", "Aes128Gcm">>
BadKdfTriple == <<"X25519HkdfSha256", "HkdfSha512", "Aes128Gcm">>
BadAeadTriple == <<"X25519HkdfSha256", "HkdfSha256", "ChaCha20Poly1305">>
BadKeypair(id, triple) ==
    [config |-> HpkeConfig(id, triple, PublicKeyOf(id)),
     private_key |-> PrivateKeyOf(id)]
GoodCollector == HpkeConfig(200, SupportedTriple, <<200, 18>>)
BadCollector == HpkeConfig(200, BadAeadTriple, <<200, 18>>)

\* the tasks the callers of the lifecycle specifications pass
SetupTasks ==
    { MkTask("leader", {GoodKeypair(7)}, Vdaf("Prio3Aes128Count", <<>>, 0),
             GoodCollector, <<"tok-a", "tok-b">>, <<"col-x">>),
      MkTask("helper", {GoodKeypair(7), GoodKeypair(9)}, Vdaf("Prio3Aes128Sum", <<>>, 3),
             GoodCollector, <<"tok-a", "tok-b">>, <<"col-x">>),
      MkTask("leader", {GoodKeypair(7), BadKeypair(9, BadKemTriple)},
             Vdaf("Prio3Aes128Count", <<>>, 0),
             GoodCollector, <<"tok-a", "tok-b">>, <<"col-x">>),
      MkTask("helper", {BadKeypair(9, BadKdfTriple)},
             Vdaf("Prio3Aes128Histogram", <<1, 5>>, 0),
             GoodCollector, <<"tok-a", "tok-b">>, <<"col-x">>),
      MkTask("helper", {GoodKeypair(7)}, Vdaf("Poplar1", <<>>, 0),
             GoodCollector, <<"tok-a", "tok-b">>, <<"col-x">>),
      MkTask("leader", {BadKeypair(7, BadAeadTriple)}, Vdaf("Fake", <<>>, 0),
             GoodCollector, <<"tok-a", "tok-b">>, <<"col-x">>),
      MkTask("leader", {GoodKeypair(7)}, Vdaf("Prio3Aes128Count", <<>>, 0),
             BadCollector, <<"tok-a", "tok-b">>, <<"col-x">>) }

SetupKeys == { [n \in 1 .. KeyLen |-> 171] }

\* caller i enters Daphne::new with a task; the translation draws its keys
NewTranslate(i, tasks, keys) ==
    /\ pc[i] = "idle"
    /\ \E t \in tasks : \E order \in Orderings(t.hpke_keys) :
          \E bucket_key \in keys, collect_id_key \in keys :
             Translate(i, t, order, bucket_key, collect_id_key)

\* Daphne::new up to the returned handle, for caller i
NewStep(i, tasks, keys) ==
    \/ NewTranslate(i, tasks, keys)
    \/ LockCache(i)
    \/ CheckCache(i)
    \/ \E loadOk \in BOOLEAN : InitCache(i, loadOk)
    \/ ReadCache(i)
    \/ \E found \in BOOLEAN : PickPort(i, found)
    \/ RunContainer(i)
    \/ \E reachable \in BOOLEAN : AwaitHttpServer(i, reachable)
    \/ SpawnPump(i)

\* the pump task of instance i
PumpStep(i) ==
    \/ TimerFire(i)
    \/ \E hangs \in BOOLEAN : PumpTick(i, hangs)
    \/ PumpShutdown(i)
    \/ RequestOk(i)
    \/ RequestFails(i)

\* teardown of the handle of instance i
DropStep(i) ==
    \/ DropSend(i)
    \/ DropRecv(i)
    \/ RemoveContainer(i)

\* one instance from Daphne::new to the removal of its container
Next ==
    \/ NewStep(1, SetupTasks, RandomKeys)
    \/ PumpStep(1)
    \/ DropStep(1)

Spec == Init /\ [][Next]_vars

\* the scheduling: a runnable task is eventually polled, a request that is
\* not hung eventually resolves, the blocked recv() returns once a message is
\* queued, and select! picks among its ready branches at random, so a branch
\* that is ready again and again is eventually taken
Fairness ==
    /\ WF_vars(RequestOk(1) \/ RequestFails(1))
    /\ SF_vars(PumpShutdown(1))
    /\ WF_vars(DropRecv(1))
    /\ WF_vars(RemoveContainer(1))

FairSpec == Spec /\ Fairness

\* one instance whose pump task may also be dropped by the runtime
NextAbort ==
    \/ Next
    \/ PumpAbort(1)

SpecAbort == Init /\ [][NextAbort]_vars

FairSpecAbort == SpecAbort /\ Fairness

\* concurrent callers of Daphne::new racing for the image cache
NextSetup == \E i \in Instances : NewStep(i, SetupTasks, SetupKeys)

SpecSetup == Init /\ [][NextSetup]_vars

\* callers that translate tasks of the lifecycle domain with random keys
NextPair == \E i \in Instances : NewTranslate(i, SetupTasks, RandomKeys)

SpecPair == Init /\ [][NextPair]_vars

\* the translation alone, over every task of the input domain
NextTranslate == NewTranslate(1, AllTasks, RandomKeys)

SpecTranslate == Init /\ [][NextTranslate]_vars

(***************************************************************************)
(* Properties of the pump and of teardown.                                 *)
(***************************************************************************)
TeardownReturned(i) == pc[i] \in {"drop_returned", "removed"}
PumpLive(i) == pumpPc[i] \in {"select", "request"}

\* the lifecycle state of section 4.4, read off the pump and its channel
PumpState(i) ==
    CASE pumpPc[i] = "none" -> "NotSpawned"
      [] pumpPc[i] = "stopped" -> "Stopped"
      [] pumpPc[i] = "aborted" -> "Aborted"
      [] cancel[i] = "sent" -> "ShutdownRequested"
      [] OTHER -> "Running"

\* C1: once teardown of an instance has returned, or its container is
\* removed, or the completion report is queued, the pump of the instance has
\* stopped: no request is in flight, and no request is started afterwards.
C1_NoRequestAfterTeardown ==
    /\ [](\A i \in Instances :
            /\ TeardownReturned(i) => pumpPc[i] = "stopped"
            /\ container[i] = "removed" => ~PumpLive(i)
            /\ complete[i] > 0 => pumpPc[i] = "stopped")
    /\ [][\A i \in Instances :
            (TeardownReturned(i) \/ container[i] = "removed" \/ complete[i] > 0)
               => /\ issued'[i] = issued[i]
                  /\ ~PumpLive(i)']_vars

C1_Witness ==
    \E i \in Instances :
        /\ pc[i] = "removed" /\ container[i] = "removed"
        /\ pumpPc[i] = "stopped" /\ issued[i] >= 2 /\ afterCancel[i] >= 1

\* C2: once teardown is invoked (cancellation sent, blocking wait begun) the
\* wait eventually returns and the pump reaches Stopped, whatever the pump
\* was doing, also with a request in flight.
C2_TeardownAlwaysCompletes ==
    \A i \in Instances :
        (pc[i] = "drop_sent") ~> (TeardownReturned(i) /\ pumpPc[i] = "stopped")

\* C3: while a request is in flight and unresolved, the pump can observe a
\* cancellation that was sent and report completion without waiting for the
\* request to resolve.
C3_HungRequestDoesNotBlockCancel ==
    \A i \in Instances :
        (pumpPc[i] = "request" /\ cancel[i] = "sent") => ENABLED PumpShutdown(i)

\* C4: at most one tick is processed, so at most one request issued, between
\* the sending of the cancellation and the completion report.
C4_AtMostOneTickAfterCancel ==
    \A i \in Instances : afterCancel[i] <= 1

\* C5: the pump lifecycle only moves Running -> ShutdownRequested -> Stopped
\* (after the spawn), never backward and never from Running to Stopped, and
\* Stopped is terminal: no tick, no request, no second completion report.
C5_Lifecycle ==
    [][\A i \in Instances :
          /\ \/ PumpState(i)' = PumpState(i)
             \/ PumpState(i) = "NotSpawned" /\ PumpState(i)' = "Running"
             \/ PumpState(i) = "Running" /\ PumpState(i)' = "ShutdownRequested"
             \/ PumpState(i) = "ShutdownRequested" /\ PumpState(i)' = "Stopped"
          /\ PumpState(i) = "Stopped"
                => /\ pumpPc'[i] = pumpPc[i]
                   /\ issued'[i] = issued[i]
                   /\ tickReady'[i] = tickReady[i]
                   /\ complete'[i] <= complete[i]]_vars

C5_Witness ==
    \E i \in Instances :
        PumpState(i) = "Stopped" /\ issued[i] >= 1 /\ pc[i] = "removed"

\* C6: a failed maintenance request is swallowed: the step that resolves a
\* request with an error leaves the lifecycle state as it was, puts the pump
\* back at the select, reports nothing, and the next tick the pump takes
\* after a failure starts a new request.
C6_FailureSwallowed ==
    [][\A i \in Instances :
          /\ (pumpPc[i] = "request" /\ pumpPc'[i] # "request" /\ lastResult'[i] = "err")
                => /\ pumpPc'[i] = "select"
                   /\ PumpState(i)' = PumpState(i)
                   /\ complete'[i] = complete[i]
          /\ (pumpPc[i] = "select" /\ lastResult[i] = "err"
                /\ tickReady[i] /\ ~tickReady'[i])
                => /\ pumpPc'[i] = "request"
                   /\ issued'[i] = issued[i] + 1]_vars

C6_Witness ==
    \E i \in Instances :
        /\ lastResult[i] = "err" /\ pumpPc[i] = "request"
        /\ issued[i] >= 2 /\ cancel[i] = "open"

(***************************************************************************)
(* Properties of the image cache and of the configuration checks.          *)
(***************************************************************************)
PastCache(i) ==
    pc[i] \in {"resolved", "port_picked", "container_started", "ready", "alive",
               "drop_sent", "drop_returned", "removed"}
InCriticalSection(i) == pc[i] \in {"locked", "init", "cached"}
Entered(i) == pc[i] # "idle"

\* C7: the image cache is initialized at most once: whatever the
\* interleaving of the callers, at most one of them parses the metadata and
\* loads the image, and it does so holding the lock; every caller that gets
\* past the cache holds the stored pair, which exactly one caller produced;
\* once populated the slot never changes.
C7_CacheInitializedOnce ==
    /\ [](/\ Cardinality(parsedBy) <= 1
          /\ Cardinality(loadedBy) <= 1
          /\ loadedBy \subseteq parsedBy
          /\ \A i \in Instances : InCriticalSection(i) => lockHolder = i
          /\ cache # NoImage => Cardinality(parsedBy) = 1
          /\ \A i \in Instances :
                PastCache(i) => image[i] = cache /\ cache # NoImage)
    /\ [][/\ cache # NoImage => cache' = cache
          /\ parsedBy' # parsedBy =>
                \E i \in Instances : parsedBy' = parsedBy \cup {i} /\ lockHolder = i]_vars

C7_Witness ==
    \E i, j \in Instances :
        /\ i # j /\ PastCache(i) /\ PastCache(j)
        /\ image[i] = image[j] /\ parsedBy = {i}

\* C8: a caller whose Task carries an HPKE keypair outside the supported
\* triple fails in the translation, before anything else happened: it never
\* touched the image cache, picked no port, started no container, spawned
\* no pump and produced no configuration.
OutsideSupportedTriple(hpke_config) ==
    \/ hpke_config.kem_id # "X25519HkdfSha256"
    \/ hpke_config.kdf_id # "HkdfSha256"
    \/ hpke_config.aead_id # "Aes128Gcm"

HasUnsupportedKeypair(t) ==
    \E kp \in t.hpke_keys : OutsideSupportedTriple(kp.config)

C8_UnsupportedHpkeFailsFirst ==
    \A i \in Instances :
        (Entered(i) /\ HasUnsupportedKeypair(task[i]))
           => /\ pc[i] = "panicked"
              /\ err[i] = "UnsupportedHpkeAlgorithm"
              /\ did[i] = {"translate"}
              /\ config[i] = NoConfig
              /\ image[i] = NoImage
              /\ container[i] = "none"
              /\ pumpPc[i] = "none"
              /\ lockHolder # i /\ i \notin parsedBy /\ i \notin loadedBy

C8_Witness ==
    \E i, j \in Instances :
        /\ Entered(i) /\ HasUnsupportedKeypair(task[i]) /\ pc[i] = "panicked"
        /\ \E kp \in task[i].hpke_keys : ~OutsideSupportedTriple(kp.config)
        /\ j # i /\ pc[j] = "alive"

\* C9 as stated: a caller whose Task has a VDAF selector other than Count,
\* Histogram or Sum fails with the unsupported-VDAF error, produces no
\* configuration, starts no container and spawns no pump.
UnsupportedSelector(t) == ~VdafSupported(t.vdaf)

NothingLaunched(i) ==
    /\ pc[i] = "panicked"
    /\ config[i] = NoConfig
    /\ did[i] = {"translate"}
    /\ container[i] = "none"
    /\ pumpPc[i] = "none"

C9_Original ==
    \A i \in Instances :
        (Entered(i) /\ UnsupportedSelector(task[i]))
           => NothingLaunched(i) /\ err[i] = "UnsupportedVdaf"

\* C9 as amended: such a caller always fails in the translation with nothing
\* launched and never gets a default descriptor; the error is the
\* unsupported-VDAF error when all HPKE keypairs of the Task use the
\* supported triple, and the unsupported-HPKE error raised by the receiver
\* list, which is built first, otherwise.
C9_UnsupportedVdafFails ==
    \A i \in Instances :
        (Entered(i) /\ UnsupportedSelector(task[i]))
           => /\ NothingLaunched(i)
              /\ err[i] = IF HasUnsupportedKeypair(task[i])
                             THEN "UnsupportedHpkeAlgorithm"
                             ELSE "UnsupportedVdaf"

C9_Witness ==
    \E i, j \in Instances :
        /\ Entered(i) /\ UnsupportedSelector(task[i])
        /\ ~HasUnsupportedKeypair(task[i]) /\ err[i] = "UnsupportedVdaf"
        /\ Entered(j) /\ UnsupportedSelector(task[j])
        /\ HasUnsupportedKeypair(task[j]) /\ pc[j] = "panicked"

\* C10: on the supported selectors the mapping keeps the parameters: Count
\* gives the count descriptor without parameters, Histogram with buckets B
\* the histogram descriptor with exactly B, Sum with n bits the sum
\* descriptor with exactly n, and no other supported selector of the input
\* domain maps to the descriptor the task's selector maps to.
Translated(i) == config[i] # NoConfig

C10_VdafMappingPreservesParameters ==
    \A i \in Instances :
        Translated(i) =>
            LET v == task[i].vdaf
                d == config[i].dap_task_list.vdaf
            IN  /\ ~d.panic
                /\ v.kind = "Prio3Aes128Count"
                      => d.prio3 = "Count" /\ d.buckets = <<>> /\ d.bits = 0
                /\ v.kind = "Prio3Aes128Histogram"
                      => d.prio3 = "Histogram" /\ d.buckets = v.buckets /\ d.bits = 0
                /\ v.kind = "Prio3Aes128Sum"
                      => d.prio3 = "Sum" /\ d.bits = v.bits /\ d.buckets = <<>>
                /\ \A w \in VdafInstances :
                      (VdafSupported(w) /\ w # v)
                         => daphne_vdaf_config_from_janus_vdaf(w) # d

C10_Witness ==
    \E i \in Instances :
        /\ Translated(i)
        /\ task[i].vdaf.kind = "Prio3Aes128Histogram"
        /\ Len(task[i].vdaf.buckets) = 2
        /\ config[i].dap_task_list.vdaf.buckets = task[i].vdaf.buckets

(***************************************************************************)
(* Properties of the translated configuration.                             *)
(***************************************************************************)
\* C11: for a Helper the translated collector-token field is empty, whatever
\* collector tokens the Task carries; for a Leader it is the object keyed by
\* the hex task id whose value is the first token of the Task's collector
\* token list.
C11_CollectorTokenByRole ==
    \A i \in Instances :
        Translated(i) =>
            LET c == config[i].collector_bearer_token_list
            IN  /\ task[i].role = "helper"
                      => c.kind = "empty_string" /\ c.key = <<>> /\ c.value = ""
                /\ task[i].role = "leader"
                      => /\ c.kind = "json_object"
                         /\ c.key = HexEncode(task[i].id)
                         /\ c.value = task[i].collector_auth_tokens[1]

C11_Witness ==
    \E i \in Instances :
        /\ Translated(i) /\ task[i].role = "helper"
        /\ Len(task[i].collector_auth_tokens) = 2
        /\ config[i].collector_bearer_token_list.value = ""

\* C12: for both roles exactly one aggregator token is forwarded: the token
\* binding is one object with the single entry hex(task id) -> first token of
\* the Task's aggregator token list, and no other token of that list is the
\* value of a token binding.
C12_OneAggregatorToken ==
    \A i \in Instances :
        Translated(i) =>
            LET a == config[i].aggregator_bearer_token_list
                c == config[i].collector_bearer_token_list
                toks == task[i].aggregator_auth_tokens
            IN  /\ a.kind = "json_object"
                /\ a.key = HexEncode(task[i].id)
                /\ a.value = toks[1]
                /\ \A n \in 2 .. Len(toks) :
                      toks[n] # toks[1] => a.value # toks[n] /\ c.value # toks[n]

C12_Witness ==
    \E i \in Instances :
        /\ Translated(i) /\ task[i].role = "helper"
        /\ task[i].aggregator_auth_tokens = <<"tok-a", "tok-b">>
        /\ config[i].aggregator_bearer_token_list.value = "tok-a"

\* C13 as stated: a Task whose HPKE keypairs all use the supported triple is
\* translated, and the receiver list has one entry per keypair with the id
\* and public key of that keypair.
ReceiverListMatchesKeypairs(i) ==
    LET l == config[i].dap_hpke_receiver_config_list
        ks == task[i].hpke_keys
    IN  /\ Len(l) = Cardinality(ks)
        /\ \A kp \in ks :
              \E n \in DOMAIN l :
                 /\ l[n].config.id = kp.config.id
                 /\ l[n].config.public_key = HexEncode(kp.config.public_key)
                 /\ l[n].secret_key = HexEncode(kp.private_key)
        /\ \A n, m \in DOMAIN l : l[n].config.id = l[m].config.id => n = m

C14_StartupTimeoutIsFatal ==
    /\ [](\A i \in Instances :
            err[i] = "StartupTimeout"
               => /\ pc[i] = "panicked"
                  /\ pumpPc[i] = "none" /\ issued[i] = 0
                  /\ "ready" \notin did[i] /\ "spawn" \notin did[i]
                  /\ container[i] = "removed")
    /\ [][\A i \in Instances :
            /\ (pc[i] = "container_started" /\ pc'[i] # pc[i])
                  => \/ pc'[i] = "ready" /\ err'[i] = "none"
                     \/ pc'[i] = "panicked" /\ err'[i] = "StartupTimeout"
            /\ (pumpPc[i] = "none" /\ pumpPc'[i] # "none") => "ready" \in did[i]
            /\ issued'[i] > issued[i] => "ready" \in did[i]]_vars

C14_Witness ==
    \E i \in Instances :
        /\ err[i] = "StartupTimeout" /\ pc[i] = "panicked"
        /\ "container" \in did[i] /\ pumpPc[i] = "none"

\* C15: when the pump task ended without the handshake (its cancellation
\* receiver and completion sender dropped), teardown does not block: sending
\* the cancellation fails, or the wait for the report fails, and teardown
\* ends with the shutdown-handshake failure; it never returns normally.
C15_ClosedChannelIsFatal ==
    /\ [][\A i \in Instances :
            (pc[i] = "alive" /\ pumpPc[i] = "aborted" /\ pc'[i] # pc[i])
               => pc'[i] = "panicked" /\ err'[i] = "ShutdownHandshakeFailure"]_vars
    /\ [](\A i \in Instances : pumpPc[i] = "aborted" => ~TeardownReturned(i))
    /\ \A i \in Instances :
          (pc[i] = "drop_sent" /\ pumpPc[i] = "aborted")
             ~> (pc[i] = "panicked" /\ err[i] = "ShutdownHandshakeFailure")

C15_Witness ==
    \E i \in Instances :
        /\ pc[i] = "panicked" /\ err[i] = "ShutdownHandshakeFailure"
        /\ pumpPc[i] = "aborted" /\ cancel[i] = "sent" /\ complete[i] = 0

\* C16: with bundled metadata whose strategy is "skip", unrecognized or not a
\* string, or is "prebuilt" without an image name or tag, the resolution
\* fails fatally: the slot stays empty, every caller that reaches the cache
\* ends with the image-resolution failure, no caller gets past the cache, no
\* container is started and no pump is spawned.
MetadataUnusable(md) ==
    /\ md.parses
    /\ \/ md.strategy.type # "string"
       \/ md.strategy.str = "skip"
       \/ md.strategy.str \notin {"build", "prebuilt", "skip"}
       \/ /\ md.strategy.str = "prebuilt"
          /\ md.image_name.type # "string" \/ md.image_tag.type # "string"

C16_BadMetadataIsFatal ==
    MetadataUnusable(metadata) =>
        /\ cache = NoImage
        /\ loadedBy = {}
        /\ \A i \in Instances :
              /\ ~PastCache(i)
              /\ image[i] = NoImage
              /\ container[i] = "none"
              /\ pumpPc[i] = "none"
              /\ "lock" \in did[i]
                    => \/ InCriticalSection(i) /\ pc[i] # "cached"
                       \/ pc[i] = "panicked" /\ err[i] = "ImageResolutionFailure"

C16_Witness ==
    \E i, j \in Instances :
        /\ MetadataUnusable(metadata) /\ metadata.strategy.type = "string"
        /\ metadata.strategy.str = "skip"
        /\ i # j /\ i \in parsedBy /\ j \notin parsedBy
        /\ err[i] = "ImageResolutionFailure" /\ err[j] = "ImageResolutionFailure"

(***************************************************************************)
(* Properties of the bootstrap bindings.                                   *)
(***************************************************************************)
\* what json!({}).to_string() would be: an object without entries
EmptyJsonObject == [kind |-> "json_object", key |-> <<>>, value |-> ""]

CollectorBindings(i) ==
    { n \in DOMAIN args[i] : args[i][n][1] = "DAP_COLLECTOR_BEARER_TOKEN_LIST" }

\* C17 as stated: the collector token binding is always among the bindings,
\* and for a Helper its value is an empty JSON object.
C17_Original ==
    \A i \in Instances :
        container[i] # "none" =>
            /\ Cardinality(CollectorBindings(i)) = 1
            /\ \A n \in CollectorBindings(i) :
                  task[i].role = "helper" => args[i][n][2] = EmptyJsonObject

\* C17 as amended: the collector token binding is always present, once, as
\* the last binding and for both roles; for a Helper its value is the empty
\* string (not a JSON object), for a Leader it is an object of the shape of
\* the aggregator token binding, keyed by the same hex task id.
C17_CollectorBindingPresent ==
    \A i \in Instances :
        container[i] # "none" =>
            /\ Cardinality(CollectorBindings(i)) = 1
            /\ \A n \in CollectorBindings(i) :
                  /\ n = Len(args[i])
                  /\ args[i][n - 1][1] = "DAP_LEADER_BEARER_TOKEN_LIST"
                  /\ task[i].role = "helper" => args[i][n][2] = EmptyString
                  /\ task[i].role = "leader"
                        => /\ args[i][n][2].kind = "json_object"
                           /\ args[i][n][2].key = args[i][n - 1][2].key
                           /\ args[i][n][2].value = task[i].collector_auth_tokens[1]

C17_Witness ==
    \E i \in Instances :
        /\ container[i] = "running" /\ task[i].role = "helper"
        /\ args[i][Len(args[i])] = <<"DAP_COLLECTOR_BEARER_TOKEN_LIST", EmptyString>>

\* C18: two translations of the same Task give bootstrap bindings that agree
\* in number, in names and in every value except possibly those of the
\* bucket-routing key and of the collection-id key.
RandomBindings == {"DAP_BUCKET_KEY", "DAP_COLLECT_ID_KEY"}

C18_DeterministicApartFromKeys ==
    \A i, j \in Instances :
        (Translated(i) /\ Translated(j) /\ task[i] = task[j]) =>
            LET a == ContainerArgs(config[i])
                b == ContainerArgs(config[j])
            IN  /\ Len(a) = Len(b)
                /\ \A n \in DOMAIN a :
                      /\ a[n][1] = b[n][1]
                      /\ a[n][1] \notin RandomBindings => a[n][2] = b[n][2]

C18_Witness ==
    \E i, j \in Instances :
        /\ i # j /\ Translated(i) /\ Translated(j) /\ task[i] = task[j]
        /\ Cardinality(task[i].hpke_keys) = 2
        /\ config[i].dap_bucket_key # config[j].dap_bucket_key
        /\ config[i].dap_collect_id_key # config[j].dap_collect_id_key

(***************************************************************************)
(* Properties of the cancellation handshake.                               *)
(***************************************************************************)
\* C19: cancellation is cooperative only. The pump stops, and a completion
\* report exists, only after the owner sent the cancellation; the pump is
\* never force-terminated; the report is made exactly once, by the step
\* that stops the pump; and while the handle is alive and teardown was not
\* invoked the pump is running, with a ready tick always taken as a request.
C19_CooperativeCancellation ==
    /\ [](\A i \in Instances :
            /\ (pumpPc[i] = "stopped" \/ complete[i] > 0) => cancel[i] = "sent"
            /\ pumpPc[i] # "aborted"
            /\ pc[i] = "alive"
                  => /\ PumpState(i) = "Running"
                     /\ PumpLive(i)
                     /\ complete[i] = 0
                     /\ (pumpPc[i] = "select" /\ tickReady[i] /\ issued[i] < MaxRequests)
                           => ENABLED (\E h \in BOOLEAN : PumpTick(i, h)))
    /\ [][\A i \in Instances :
            /\ complete'[i] > complete[i]
                  => /\ pumpPc[i] = "select" /\ pumpPc'[i] = "stopped"
                     /\ cancel[i] = "sent"
                     /\ complete'[i] = complete[i] + 1
            /\ (pumpPc[i] # "stopped" /\ pumpPc'[i] = "stopped")
                  => complete'[i] = complete[i] + 1
            /\ pumpPc[i] = "stopped"
                  => pumpPc'[i] = "stopped" /\ complete'[i] <= complete[i]]_vars

C19_Witness ==
    \E i \in Instances :
        /\ pumpPc[i] = "stopped" /\ complete[i] = 1 /\ cancel[i] = "sent"
        /\ pc[i] = "drop_sent" /\ issued[i] >= 2 /\ afterCancel[i] = 0

\* C20: a pending cancellation does not suppress a ready tick. Whenever the
\* pump is at its select with the tick ready and the cancellation sent, both
\* branches can be taken: the tick branch (a further request) as well as the
\* shutdown branch.
C20_TickRacesCancellation ==
    \A i \in Instances :
        (pumpPc[i] = "select" /\ tickReady[i] /\ cancel[i] = "sent"
            /\ issued[i] < MaxRequests)
           => /\ ENABLED (\E h \in BOOLEAN : PumpTick(i, h))
              /\ ENABLED PumpShutdown(i)

\* a request issued after the cancellation was sent, completion not reported
C20_Witness ==
    \E i \in Instances :
        /\ afterCancel[i] >= 1 /\ pumpPc[i] = "request"
        /\ cancel[i] = "sent" /\ complete[i] = 0 /\ pc[i] = "drop_sent"

(***************************************************************************)
(* Order of the events of one instance.                                    *)
(***************************************************************************)
\* C21: the events of one instance happen in the order translation, image
\* resolution, container start, readiness confirmed, pump spawned, first
\* maintenance request: each of them happens only when all the earlier ones
\* have, and no request is issued before the readiness wait returned
\* successfully, with the container running.
C21_SetupOrder ==
    /\ [][\A i \in Instances :
            /\ (did'[i] \ did[i]) \cap {"lock", "parse", "load"} # {}
                  => config[i] # NoConfig
            /\ image'[i] # image[i]
                  => config[i] # NoConfig /\ "lock" \in did[i]
            /\ (container[i] = "none" /\ container'[i] = "running")
                  => /\ config[i] # NoConfig /\ image[i] # NoImage
                     /\ "ready" \notin did[i] /\ pumpPc[i] = "none"
            /\ ("ready" \in did'[i] /\ "ready" \notin did[i])
                  => container[i] = "running" /\ pumpPc[i] = "none"
            /\ (pumpPc[i] = "none" /\ pumpPc'[i] # "none")
                  => /\ "ready" \in did[i] /\ container[i] = "running"
                     /\ issued[i] = 0 /\ issued'[i] = 0
            /\ issued'[i] > issued[i]
                  => /\ {"translate", "lock", "container", "ready", "spawn"} \subseteq did[i]
                     /\ image[i] # NoImage /\ container[i] = "running"]_vars
    /\ [](\A i \in Instances :
            issued[i] > 0
               => /\ {"translate", "lock", "container", "ready", "spawn"} \subseteq did[i]
                  /\ config[i] # NoConfig /\ image[i] # NoImage
                  /\ container[i] # "none")

C21_Witness ==
    \E i \in Instances :
        /\ issued[i] = 1 /\ pumpPc[i] = "request" /\ pc[i] = "alive"
        /\ container[i] = "running" /\ image[i] # NoImage
        /\ {"translate", "lock", "container", "ready", "spawn"} \subseteq did[i]

(***************************************************************************)
(* JanusPair::new, tests/janus.rs lines 56-119.                            *)
(***************************************************************************)
EnvVarNames ==
    << "JANUS_E2E_KUBE_CONFIG_PATH", "JANUS_E2E_KUBECTL_CONTEXT_NAME",
       "JANUS_E2E_LEADER_NAMESPACE", "JANUS_E2E_HELPER_NAMESPACE" >>

\* what env::var returns: Ok(value), Err(NotPresent) or Err(NotUnicode)
EnvValues == {"a", "b"}
VarErrors == {"NotPresent", "NotUnicode"}
Environments == [DOMAIN EnvVarNames -> EnvValues \cup VarErrors]
NetworkNames == {"net-1", "net-2"}

IsOk(v) == v \in EnvValues
AllOk(vals) == \A n \in DOMAIN vals : IsOk(vals[n])
AllNotPresent(vals) == \A n \in DOMAIN vals : vals[n] = "NotPresent"

in_cluster_aggregator_url(namespace) == <<"aggregator", namespace, "svc.cluster.local", 80>>

\* what one call of Janus::new_with_kubernetes_cluster or
\* Janus::new_in_container was given
JanusInstance(role, backend, net, namespace, peer) ==
    [role |-> role, backend |-> backend, network |-> net,
     namespace |-> namespace, peer_endpoint |-> peer]

\* fault variant of MatchEnvironment: without the catch-all arm, every
\* environment that is not complete falls to the in-container backend
MatchEnvironment_NoCatchAll(vals, net) ==
    /\ pairPc = "start"
    /\ envRead' = vals
    /\ IF AllOk(vals)
          THEN /\ pairPc' = "kube_leader"
               /\ UNCHANGED <<pairErr, network>>
          ELSE /\ pairPc' = "container_leader"
               /\ network' = net
               /\ UNCHANGED pairErr
    /\ UNCHANGED <<created, cacheVars, callerVars, pumpVars>>

\* lines 61-108: the match on the four env::var results
MatchEnvironment(vals, net) ==
    /\ pairPc = "start"
    /\ envRead' = vals
    /\ IF AllOk(vals)
          THEN /\ pairPc' = "kube_leader"
               /\ UNCHANGED <<pairErr, network>>
          ELSE IF AllNotPresent(vals)
          THEN /\ pairPc' = "container_leader"
               /\ network' = net
               /\ UNCHANGED pairErr
          ELSE /\ pairPc' = "panicked"
               /\ pairErr' = "unexpected environment variables"
               /\ UNCHANGED network
    /\ UNCHANGED <<created, cacheVars, callerVars, pumpVars>>

\* lines 79-87 and 103: the leader is created, or its constructor panics
NewLeader(ok) ==
    /\ pairPc \in {"kube_leader", "container_leader"}
    /\ IF ok
          THEN /\ created' = Append(created,
                    IF pairPc = "kube_leader"
                       THEN JanusInstance("leader", "kubernetes", "", envRead[3],
                                          in_cluster_aggregator_url(envRead[4]))
                       ELSE JanusInstance("leader", "container", network, "", "unchanged"))
               /\ pairPc' = IF pairPc = "kube_leader" THEN "kube_helper"
                                                      ELSE "container_helper"
               /\ UNCHANGED pairErr
          ELSE /\ pairPc' = "panicked"
               /\ pairErr' = "aggregator creation"
               /\ UNCHANGED created
    /\ UNCHANGED <<envRead, network, cacheVars, callerVars, pumpVars>>

\* lines 89-97 and 104: the helper is created, or its constructor panics
NewHelper(ok) ==
    /\ pairPc \in {"kube_helper", "container_helper"}
    /\ IF ok
          THEN /\ created' = Append(created,
                    IF pairPc = "kube_helper"
                       THEN JanusInstance("helper", "kubernetes", "", envRead[4],
                                          in_cluster_aggregator_url(envRead[3]))
                       ELSE JanusInstance("helper", "container", network, "", "unchanged"))
               /\ pairPc' = IF pairPc = "kube_helper" THEN "kube_sleep" ELSE "done"
               /\ UNCHANGED pairErr
          ELSE /\ pairPc' = "panicked"
               /\ pairErr' = "aggregator creation"
               /\ UNCHANGED created
    /\ UNCHANGED <<envRead, network, cacheVars, callerVars, pumpVars>>

\* lines 99-103: the one-second wait for the port-forwards, then the pair
PortForwardSleep ==
    /\ pairPc = "kube_sleep"
    /\ pairPc' = "done"
    /\ UNCHANGED <<envRead, pairErr, network, created, cacheVars, callerVars, pumpVars>>

NextJanusPair ==
    \/ \E vals \in Environments, net \in NetworkNames : MatchEnvironment(vals, net)
    \/ \E ok \in BOOLEAN : NewLeader(ok)
    \/ \E ok \in BOOLEAN : NewHelper(ok)
    \/ PortForwardSleep

SpecJanusPair == Init /\ [][NextJanusPair]_vars

Backends == { created[k].backend : k \in DOMAIN created }

CreationOrder ==
    /\ Len(created) <= 2
    /\ Len(created) >= 1 => created[1].role = "leader"
    /\ Len(created) = 2 => created[2].role = "helper"
    /\ pairPc = "done" => Len(created) = 2

C23_RequestsDoNotOverlap ==
    [][\A i \in Instances :
          /\ issued'[i] # issued[i]
                => /\ pumpPc[i] = "select" /\ pumpPc'[i] = "request"
                   /\ issued'[i] = issued[i] + 1
          /\ pumpPc[i] = "request"
                => /\ issued'[i] = issued[i]
                   /\ complete'[i] = complete[i]
                   /\ tickReady[i] => tickReady'[i]
                   /\ pumpPc'[i] \in {"request", "select"}
                   /\ pumpPc'[i] = "select" => ~reqHung[i]]_vars

\* the period elapsed while the second request is still in flight
C23_Witness ==
    \E i \in Instances :
        /\ pumpPc[i] = "request" /\ tickReady[i] /\ issued[i] = 2
        /\ cancel[i] = "open" /\ pc[i] = "alive"

(***************************************************************************)
(* The collector HPKE configuration.                                       *)
(***************************************************************************)
UnsupportedCollector(t) == OutsideSupportedTriple(t.collector_hpke_config)

\* C24: the collector HPKE configuration goes through the same conversion
\* as the keypairs of the Task, which accepts the supported triple only; a
\* caller whose Task has supported keypairs and a supported VDAF but a
\* collector configuration of another triple fails in the translation with
\* the unsupported-HPKE error, before the image cache is touched and with
\* no container started.
C24_CollectorConfigValidated ==
    /\ \A c \in CollectorConfigs : HpkeConfigSupported(c) = ~OutsideSupportedTriple(c)
    /\ \A i \in Instances :
          (/\ Entered(i)
           /\ ~HasUnsupportedKeypair(task[i])
           /\ ~UnsupportedSelector(task[i])
           /\ UnsupportedCollector(task[i]))
             => /\ NothingLaunched(i)
                /\ err[i] = "UnsupportedHpkeAlgorithm"
                /\ image[i] = NoImage
                /\ lockHolder # i /\ i \notin parsedBy /\ i \notin loadedBy

C24_Witness ==
    \E i, j \in Instances :
        /\ Entered(i) /\ UnsupportedCollector(task[i])
        /\ ~HasUnsupportedKeypair(task[i]) /\ ~UnsupportedSelector(task[i])
        /\ err[i] = "UnsupportedHpkeAlgorithm"
        /\ j # i /\ container[j] = "running"

(***************************************************************************)
(* A failed image resolution.                                              *)
(***************************************************************************)
\* a caller failed inside the cache block, holding the lock
ResolutionFailed ==
    \E i \in parsedBy : pc[i] = "panicked" /\ err[i] = "ImageResolutionFailure"

\* C25: a failed image resolution is sticky. Once a caller has failed to
\* resolve the image, the lock stays poisoned and free and the slot empty;
\* every caller that comes to the lock afterwards fails there with the
\* image-resolution error, and none of them parses the metadata, loads the
\* image or starts a container.
C25_FailedResolutionIsSticky ==
    /\ [](ResolutionFailed
            => /\ lockPoisoned /\ lockHolder = 0 /\ cache = NoImage
               /\ Cardinality(parsedBy) = 1 /\ loadedBy \subseteq parsedBy
               /\ \A i \in Instances :
                     /\ container[i] = "none" /\ image[i] = NoImage
                     /\ pumpPc[i] = "none"
                     /\ "lock" \in did[i]
                           => /\ pc[i] = "panicked"
                              /\ err[i] = "ImageResolutionFailure"
                     /\ pc[i] = "translated" => ENABLED LockCache(i))
    /\ [][ResolutionFailed
            => /\ ResolutionFailed'
               /\ parsedBy' = parsedBy /\ loadedBy' = loadedBy /\ cache' = cache
               /\ \A i \in Instances :
                     (pc[i] = "translated" /\ pc'[i] # pc[i])
                        => /\ pc'[i] = "panicked"
                           /\ err'[i] = "ImageResolutionFailure"
                           /\ did'[i] = did[i] \cup {"lock"}]_vars

\* one caller failed resolving the image, a later one failed at the lock
C25_Witness ==
    \E i, j \in Instances :
        /\ i # j /\ i \in parsedBy /\ pc[i] = "panicked"
        /\ j \notin parsedBy /\ "lock" \in did[j] /\ pc[j] = "panicked"
        /\ err[j] = "ImageResolutionFailure" /\ lockPoisoned

====
